---- MODULE Spec2Model ----
(***************************************************************************)
(* A model of the bounded rational type of src/src/fraction.rs.            *)
(*                                                                         *)
(* The integer types are kept with their relative widths.  The magnitude   *)
(* bound of the narrow signed type (i32::MAX in the source) is I32_MAX;    *)
(* i32 is the ring of MOD32 = 2*I32_MAX+2 values I32_MIN..I32_MAX, u32 is  *)
(* 0..MOD32-1 and u64/i64 have MOD32^2 values, exactly as 2^64 = (2^32)^2. *)
(* Casts wrap as Rust's `as` does; arithmetic that leaves its type aborts  *)
(* the operation (the overflow-checked build), which the model records as  *)
(* the value PANICKED.  The i128 products of shrink are bounded by         *)
(* MOD64 * MOD32 * MOD32, far inside i128, and are computed exactly.       *)
(***************************************************************************)
EXTENDS Integers, Sequences, FiniteSets, TLC

VARIABLES
    x,      \* first operand register: a Fraction
    y,      \* second operand register: a Fraction
    r,      \* the value returned by the last call
    ord,    \* the Option<Ordering> returned by the last partial_cmp
    pc,     \* which call last returned ("idle" between calls)
    argn,   \* first integer argument of the last constructor/conversion call
    argd,   \* second integer argument of the last Fraction::new call
    sN,     \* numerator handed to shrink   (specification SpecShrink)
    sD,     \* denominator handed to shrink (specification SpecShrink)
    sOut,   \* pair returned by shrink      (specification SpecShrink)
    conv,   \* the Result returned by the last checked conversion to an integer
    seen    \* the (prev, curr) pairs sqrt_fraction's loop has already tested

vars == <<x, y, r, ord, pc, argn, argd, sN, sD, sOut, conv, seen>>

(***************************************************************************)
(* Integer types                                                           *)
(***************************************************************************)
I32_MAX == 7

I32_MIN == -I32_MAX - 1
MOD32 == 2 * I32_MAX + 2
MOD64 == MOD32 * MOD32
U64_MAX == MOD64 - 1
I64_MAX == (MOD64 \div 2) - 1
I64_MIN == -(MOD64 \div 2)
I128_MAX == ((MOD64 * MOD64) \div 2) - 1
I128_MIN == -I128_MAX - 1

I32 == I32_MIN..I32_MAX
U64 == 0..U64_MAX

\* `v as u32`, `v as i32`: wrapping casts
AsU32(v) == v % MOD32
AsI32(v) == LET m == v % MOD32 IN IF m > I32_MAX THEN m - MOD32 ELSE m

InI32(v) == I32_MIN <= v /\ v <= I32_MAX
InU64(v) == 0 <= v /\ v <= U64_MAX
InI64(v) == I64_MIN <= v /\ v <= I64_MAX
InI128(v) == I128_MIN <= v /\ v <= I128_MAX

Abs(v) == IF v < 0 THEN -v ELSE v
signum(v) == IF v > 0 THEN 1 ELSE IF v < 0 THEN -1 ELSE 0
Min(a, b) == IF a <= b THEN a ELSE b
Max(a, b) == IF a >= b THEN a ELSE b

(***************************************************************************)
(* Fraction values                                                         *)
(***************************************************************************)
Type == {"Normal", "Infinity", "NegInfinity", "Zero", "NaN"}

Frac(n, d, t) == [nume |-> n, deno |-> d, frac_type |-> t]

INFINITY == Frac(I32_MAX, 1, "Infinity")
NEG_INFINITY == Frac(I32_MIN, 1, "NegInfinity")
NAN == Frac(0, 0, "NaN")
ZERO == Frac(0, 1, "Zero")
MAX == Frac(I32_MAX - 1, 1, "Normal")
MIN == Frac(I32_MIN + 1, 1, "Normal")
MIN_POSITIVE == Frac(1, I32_MAX, "Normal")

LIMITER == I32_MAX

\* the value standing for an aborted call (overflow or division by zero)
PANICKED == Frac(0, 0, "Panic")
PanicPair == <<-1, -1>>

determine_frac_type(nume, deno) ==
    IF deno = 0 THEN
        (IF signum(nume) = 1 THEN "Infinity"
         ELSE IF signum(nume) = -1 THEN "NegInfinity"
         ELSE "NaN")
    ELSE IF nume = 0 THEN "Zero"
    ELSE IF deno = 1 THEN
        (IF nume = I32_MAX THEN "Infinity"
         ELSE IF nume = I32_MIN THEN "NegInfinity"
         ELSE "Normal")
    ELSE "Normal"

\* Rust's `/` and `%` on integers: truncation toward zero, remainder with
\* the sign of the dividend (the divisor is never 0 where these are used)
TruncDiv(a, b) == signum(a) * signum(b) * (Abs(a) \div Abs(b))
Rem(a, b) == signum(a) * (Abs(a) % Abs(b))

RECURSIVE gcd(_, _)
gcd(a, b) == IF b # 0 THEN gcd(b, Rem(a, b)) ELSE a

\* lcm returns (b / gcd, a / gcd, gcd); called with nonzero denominators
lcm(a, b) == LET g == gcd(a, b) IN <<TruncDiv(b, g), TruncDiv(a, g), g>>

(***************************************************************************)
(* shrink                                                                  *)
(***************************************************************************)
\* the loop of shrink: the last two convergents when the next one leaves
\* the bound; panic records a division by zero or a u64 overflow
RECURSIVE shrink_loop(_, _, _, _, _, _)
shrink_loop(p_0, q_0, p_1, q_1, nume, deno) ==
    IF deno = 0 THEN [p_0 |-> p_0, q_0 |-> q_0, p_1 |-> p_1, q_1 |-> q_1, panic |-> TRUE]
    ELSE
        LET q == nume \div deno
            p_2 == p_0 + q * p_1
            q_2 == q_0 + q * q_1
        IN  IF ~InU64(q * p_1) \/ ~InU64(p_2) \/ ~InU64(q * q_1) \/ ~InU64(q_2) THEN
                [p_0 |-> p_0, q_0 |-> q_0, p_1 |-> p_1, q_1 |-> q_1, panic |-> TRUE]
            ELSE IF p_2 > LIMITER \/ q_2 > LIMITER THEN
                [p_0 |-> p_0, q_0 |-> q_0, p_1 |-> p_1, q_1 |-> q_1, panic |-> FALSE]
            ELSE shrink_loop(p_1, q_1, p_2, q_2, deno, nume - q * deno)

\* shrink_choose with the comparison made strict: a tie goes to the
\* semiconvergent
shrink_choose_strict(p_0, q_0, p_1, q_1, k, nume_abs, deno_abs) ==
    LET nume_1 == p_1
        deno_1 == q_1
        nume_2 == p_0 + k * p_1
        deno_2 == q_0 + k * q_1
        d_1 == Abs(nume_1 * deno_abs - nume_abs * deno_1)
        d_2 == Abs(nume_2 * deno_abs - nume_abs * deno_2)
    IN  IF ~InU64(k * p_1) \/ ~InU64(nume_2) \/ ~InU64(k * q_1) \/ ~InU64(deno_2)
           \/ ~InI128(nume_1 * deno_abs) \/ ~InI128(nume_abs * deno_1)
           \/ ~InI128(nume_1 * deno_abs - nume_abs * deno_1)
           \/ ~InI128(nume_2 * deno_abs) \/ ~InI128(nume_abs * deno_2)
           \/ ~InI128(nume_2 * deno_abs - nume_abs * deno_2)
           \/ ~InI128(d_1 * deno_2) \/ ~InI128(d_2 * deno_1)
        THEN PanicPair
        ELSE IF d_1 * deno_2 < d_2 * deno_1
        THEN <<AsU32(nume_1), AsU32(deno_1)>>
        ELSE <<AsU32(nume_2), AsU32(deno_2)>>

\* the choice between the last convergent and the semiconvergent (lines 147-155)
shrink_choose(p_0, q_0, p_1, q_1, k, nume_abs, deno_abs) ==
    LET nume_1 == p_1
        deno_1 == q_1
        nume_2 == p_0 + k * p_1
        deno_2 == q_0 + k * q_1
        d_1 == Abs(nume_1 * deno_abs - nume_abs * deno_1)
        d_2 == Abs(nume_2 * deno_abs - nume_abs * deno_2)
    IN  IF ~InU64(k * p_1) \/ ~InU64(nume_2) \/ ~InU64(k * q_1) \/ ~InU64(deno_2)
           \/ ~InI128(nume_1 * deno_abs) \/ ~InI128(nume_abs * deno_1)
           \/ ~InI128(nume_1 * deno_abs - nume_abs * deno_1)
           \/ ~InI128(nume_2 * deno_abs) \/ ~InI128(nume_abs * deno_2)
           \/ ~InI128(nume_2 * deno_abs - nume_abs * deno_2)
           \/ ~InI128(d_1 * deno_2) \/ ~InI128(d_2 * deno_1)
        THEN PanicPair
        ELSE IF d_1 * deno_2 <= d_2 * deno_1
        THEN <<AsU32(nume_1), AsU32(deno_1)>>
        ELSE <<AsU32(nume_2), AsU32(deno_2)>>

\* the two short-circuit returns and the multiplier k (lines 132-147)
shrink_tail(c, nume_abs, deno_abs) ==
    IF c.q_1 = 0 THEN <<AsU32(I32_MAX), 1>>
    ELSE IF c.p_1 = 0 THEN <<0, 1>>
    ELSE
        LET k_q == (LIMITER - c.q_0) \div c.q_1
            k_p == (LIMITER - c.p_0) \div c.p_1
            k == Max(Min(k_q, k_p), 0)
        IN  shrink_choose(c.p_0, c.q_0, c.p_1, c.q_1, k, nume_abs, deno_abs)

shrink(nume, deno) ==
    IF nume <= LIMITER /\ deno <= LIMITER THEN <<AsU32(nume), AsU32(deno)>>
    ELSE
        LET c == shrink_loop(0, 1, 1, 0, nume, deno)
        IN  IF c.panic THEN PanicPair ELSE shrink_tail(c, nume, deno)

(***************************************************************************)
(* Construction, predicates and unary operations                           *)
(***************************************************************************)
\* `u as i32 * sign` followed by the struct literal of lines 59-65 / 358-362
signed_result(num, den, sign) ==
    IF ~InI32(AsI32(num) * sign) THEN PANICKED
    ELSE LET n == AsI32(num) * sign
             d == AsI32(den)
         IN  Frac(n, d, determine_frac_type(n, d))

\* new without the division by gcd_val
new_unreduced(nume, deno) ==
    LET frac_type == determine_frac_type(nume, deno)
    IN  CASE frac_type = "Infinity" -> INFINITY
          [] frac_type = "NegInfinity" -> NEG_INFINITY
          [] frac_type = "NaN" -> NAN
          [] frac_type = "Zero" -> ZERO
          [] OTHER ->
                LET sign == signum(nume) * signum(deno)
                    un == Abs(nume)
                    ud == Abs(deno)
                    s == shrink(un, ud)
                IN  IF s = PanicPair THEN PANICKED
                    ELSE signed_result(s[1], s[2], sign)

\* new with the sign taken from the numerator alone
new_numsign(nume, deno) ==
    LET frac_type == determine_frac_type(nume, deno)
    IN  CASE frac_type = "Infinity" -> INFINITY
          [] frac_type = "NegInfinity" -> NEG_INFINITY
          [] frac_type = "NaN" -> NAN
          [] frac_type = "Zero" -> ZERO
          [] OTHER ->
                LET sign == signum(nume)
                    un == Abs(nume)
                    ud == Abs(deno)
                    gcd_val == gcd(un, ud)
                    s == shrink(un \div gcd_val, ud \div gcd_val)
                IN  IF s = PanicPair THEN PANICKED
                    ELSE signed_result(s[1], s[2], sign)

new(nume, deno) ==
    LET frac_type == determine_frac_type(nume, deno)
    IN  CASE frac_type = "Infinity" -> INFINITY
          [] frac_type = "NegInfinity" -> NEG_INFINITY
          [] frac_type = "NaN" -> NAN
          [] frac_type = "Zero" -> ZERO
          [] OTHER ->
                LET sign == signum(nume) * signum(deno)
                    un == Abs(nume)
                    ud == Abs(deno)
                    gcd_val == gcd(un, ud)
                    s == shrink(un \div gcd_val, ud \div gcd_val)
                IN  IF s = PanicPair THEN PANICKED
                    ELSE signed_result(s[1], s[2], sign)

sign(self) ==
    CASE self.frac_type = "NaN" -> NAN
      [] self.frac_type = "Zero" -> ZERO
      [] self.frac_type = "Infinity" -> Frac(1, 1, "Normal")
      [] self.frac_type = "NegInfinity" -> Frac(-1, 1, "Normal")
      [] OTHER -> IF self.nume >= 0 THEN Frac(1, 1, "Normal") ELSE Frac(-1, 1, "Normal")

i32_sign(self) ==
    CASE self.frac_type = "NaN" -> 0
      [] self.frac_type = "Zero" -> 0
      [] self.frac_type = "Infinity" -> 1
      [] self.frac_type = "NegInfinity" -> -1
      [] OTHER -> IF self.nume > 0 THEN 1 ELSE -1

is_positive(self) ==
    CASE self.frac_type \in {"NegInfinity", "NaN", "Zero"} -> FALSE
      [] self.frac_type = "Infinity" -> TRUE
      [] OTHER -> self.nume > 0

is_negative(self) ==
    CASE self.frac_type \in {"Infinity", "NaN", "Zero"} -> FALSE
      [] self.frac_type = "NegInfinity" -> TRUE
      [] OTHER -> self.nume < 0

abs(self) ==
    CASE self.frac_type \in {"NegInfinity", "Infinity"} -> INFINITY
      [] self.frac_type = "NaN" -> NAN
      [] self.frac_type = "Zero" -> ZERO
      [] OTHER ->
            IF ~InI32(Abs(self.nume)) THEN PANICKED
            ELSE Frac(Abs(self.nume), self.deno, self.frac_type)

reciprocal(self) ==
    CASE self.frac_type = "Infinity" -> ZERO
      [] self.frac_type = "NegInfinity" -> ZERO
      [] self.frac_type = "NaN" -> NAN
      [] self.frac_type = "Zero" -> INFINITY
      [] OTHER ->
            IF ~InI32(Abs(self.deno)) \/ ~InI32(Abs(self.nume)) THEN PANICKED
            ELSE Frac(Abs(self.deno) * i32_sign(self), Abs(self.nume), self.frac_type)

neg(self) ==
    CASE self.frac_type = "Infinity" -> NEG_INFINITY
      [] self.frac_type = "NegInfinity" -> INFINITY
      [] self.frac_type = "NaN" -> NAN
      [] self.frac_type = "Zero" -> ZERO
      [] OTHER ->
            IF ~InI32(-self.nume) THEN PANICKED
            ELSE Frac(-self.nume, self.deno, "Normal")

(***************************************************************************)
(* Addition and multiplication                                             *)
(***************************************************************************)
\* get_add_type with the arm for opposite infinities placed after the arms
\* for a single infinity
get_add_type_swapped(self, rhs) ==
    LET a == self.frac_type
        b == rhs.frac_type
    IN  CASE a = "NaN" \/ b = "NaN" -> "NaN"
          [] a = "Infinity" \/ b = "Infinity" -> "Infinity"
          [] a = "NegInfinity" \/ b = "NegInfinity" -> "NegInfinity"
          [] a = "Zero" /\ b = "Zero" -> "Zero"
          [] OTHER -> "Normal"

get_add_type(self, rhs) ==
    LET a == self.frac_type
        b == rhs.frac_type
    IN  CASE a = "NaN" \/ b = "NaN" -> "NaN"
          [] (a = "Infinity" /\ b = "NegInfinity") \/ (a = "NegInfinity" /\ b = "Infinity") -> "NaN"
          [] a = "Infinity" \/ b = "Infinity" -> "Infinity"
          [] a = "NegInfinity" \/ b = "NegInfinity" -> "NegInfinity"
          [] a = "Zero" /\ b = "Zero" -> "Zero"
          [] OTHER -> "Normal"

\* normal_add without the division by the gcd of the sum
normal_add_unreduced(self, rhs) ==
    LET a == self.nume
        b == self.deno
        c == rhs.nume
        d == rhs.deno
    IN  IF gcd(b, d) = 0 THEN PANICKED
        ELSE
        LET l == lcm(b, d)
            e == l[1]
            f == l[2]
            gcd_bd == l[3]
            nume == a * e + c * f
            deno == e * f * gcd_bd
        IN  IF ~InI64(nume) \/ ~InI64(deno) THEN PANICKED
            ELSE
            LET s == shrink(Abs(nume), deno % MOD64)
            IN  IF s = PanicPair THEN PANICKED
                ELSE signed_result(s[1], s[2], signum(nume))

\* returns the Fraction built from normal_add's pair by its callers
normal_add(self, rhs) ==
    LET a == self.nume
        b == self.deno
        c == rhs.nume
        d == rhs.deno
    IN  IF gcd(b, d) = 0 THEN PANICKED
        ELSE
        LET l == lcm(b, d)
            e == l[1]
            f == l[2]
            gcd_bd == l[3]
            nume == a * e + c * f
            deno == e * f * gcd_bd
        IN  IF ~InI64(a * e) \/ ~InI64(c * f) \/ ~InI64(nume)
               \/ ~InI64(e * f) \/ ~InI64(deno) THEN PANICKED
            ELSE
            LET sgn == signum(nume)
                u_num == Abs(nume)
                u_den == deno % MOD64
                g == gcd(u_num, u_den)
            IN  IF g = 0 THEN PANICKED
                ELSE
                LET s == shrink(u_num \div g, u_den \div g)
                IN  IF s = PanicPair THEN PANICKED
                    ELSE signed_result(s[1], s[2], sgn)

get_mul_type(self, rhs) ==
    LET a == self.frac_type
        b == rhs.frac_type
    IN  CASE a = "NaN" \/ b = "NaN" -> "NaN"
          [] (a \in {"Infinity", "NegInfinity"} /\ b = "Zero")
             \/ (a = "Zero" /\ b \in {"Infinity", "NegInfinity"}) -> "NaN"
          [] (a = "Infinity" /\ b = "Infinity") \/ (a = "NegInfinity" /\ b = "NegInfinity") -> "Infinity"
          [] (a = "Infinity" /\ b = "NegInfinity") \/ (a = "NegInfinity" /\ b = "Infinity") -> "NegInfinity"
          [] a = "Zero" \/ b = "Zero" -> "Zero"
          [] (a = "Normal" /\ b = "Infinity") \/ (a = "Infinity" /\ b = "Normal") ->
                IF is_negative(self) # is_negative(rhs) THEN "NegInfinity" ELSE "Infinity"
          [] (a = "Normal" /\ b = "NegInfinity") \/ (a = "NegInfinity" /\ b = "Normal") ->
                IF is_negative(self) # is_negative(rhs) THEN "Infinity" ELSE "NegInfinity"
          [] OTHER -> "Normal"

\* normal_mul without the cancellation of the cross factors
normal_mul_uncancelled(self, rhs) ==
    LET a == Abs(self.nume)
        b == Abs(self.deno)
        c == Abs(rhs.nume)
        d == Abs(rhs.deno)
        nume == a * c
        deno == b * d
    IN  IF ~InU64(nume) \/ ~InU64(deno) THEN PANICKED
        ELSE
        LET s == shrink(nume, deno)
        IN  IF s = PanicPair THEN PANICKED
            ELSE IF ~InI32(AsI32(s[1]) * i32_sign(self)) THEN PANICKED
            ELSE signed_result(AsI32(s[1]) * i32_sign(self), s[2], i32_sign(rhs))

\* returns the Fraction built from normal_mul's pair by its callers
normal_mul(self, rhs) ==
    LET a0 == Abs(self.nume)
        b0 == Abs(self.deno)
        c0 == Abs(rhs.nume)
        d0 == Abs(rhs.deno)
        gcd_ad == gcd(a0, d0)
        gcd_bc == gcd(b0, c0)
    IN  IF gcd_ad = 0 \/ gcd_bc = 0 THEN PANICKED
        ELSE
        LET a == a0 \div gcd_ad
            d == d0 \div gcd_ad
            b == b0 \div gcd_bc
            c == c0 \div gcd_bc
            nume == a * c
            deno == b * d
        IN  IF ~InU64(nume) \/ ~InU64(deno) THEN PANICKED
            ELSE
            LET s == shrink(nume, deno)
            IN  IF s = PanicPair THEN PANICKED
                ELSE IF ~InI32(AsI32(s[1]) * i32_sign(self)) THEN PANICKED
                ELSE signed_result(AsI32(s[1]) * i32_sign(self), s[2], i32_sign(rhs))

\* the match on the result category shared by the operators (lines 351-364)
by_type(t, normal) ==
    CASE t = "Infinity" -> INFINITY
      [] t = "NegInfinity" -> NEG_INFINITY
      [] t = "NaN" -> NAN
      [] t = "Zero" -> ZERO
      [] OTHER -> normal

add(self, rhs) ==
    IF self = PANICKED \/ rhs = PANICKED THEN PANICKED
    ELSE LET add_type == get_add_type(self, rhs)
         IN  IF add_type = "Normal" THEN normal_add(self, rhs) ELSE by_type(add_type, NAN)

sub(self, rhs) == add(self, neg(rhs))

mul(self, rhs) ==
    IF self = PANICKED \/ rhs = PANICKED THEN PANICKED
    ELSE LET add_type == get_mul_type(self, rhs)
         IN  IF add_type = "Normal" THEN normal_mul(self, rhs) ELSE by_type(add_type, NAN)

div(self, rhs) == mul(self, reciprocal(rhs))

add_assign(self, rhs) ==
    IF self = PANICKED \/ rhs = PANICKED THEN PANICKED
    ELSE LET add_type == get_add_type(self, rhs)
         IN  IF add_type = "Normal" THEN normal_add(self, rhs) ELSE by_type(add_type, NAN)

sub_assign(self, rhs) == add_assign(self, neg(rhs))

mul_assign(self, rhs) ==
    IF self = PANICKED \/ rhs = PANICKED THEN PANICKED
    ELSE LET add_type == get_add_type(self, rhs)
         IN  IF add_type = "Normal" THEN normal_mul(self, rhs) ELSE by_type(add_type, NAN)

div_assign(self, rhs) == mul_assign(self, reciprocal(rhs))

(***************************************************************************)
(* Ordering, conversions, hashing                                          *)
(***************************************************************************)
cmp(u, v) == IF u < v THEN "Less" ELSE IF u = v THEN "Equal" ELSE "Greater"

partial_cmp(self, other) ==
    LET a == self.frac_type
        b == other.frac_type
    IN  CASE a = "NaN" \/ b = "NaN" -> "None"
          [] a = "Infinity" /\ b \in {"NegInfinity", "Normal", "Zero"} -> "Greater"
          [] a = "Infinity" /\ b = "Infinity" -> "Equal"
          [] a = "NegInfinity" /\ b \in {"Infinity", "Normal", "Zero"} -> "Less"
          [] a = "NegInfinity" /\ b = "NegInfinity" -> "Equal"
          [] a = "Normal" /\ b = "Infinity" -> "Less"
          [] a = "Normal" /\ b = "NegInfinity" -> "Less"
          [] OTHER ->
                IF ~InI64(self.nume * other.deno) \/ ~InI64(self.deno * other.nume)
                THEN "Panic"
                ELSE cmp(self.nume * other.deno, self.deno * other.nume)

from_safe(value) ==
    LET v == AsI32(value)
        t == determine_frac_type(v, 1)
    IN  CASE t = "Zero" -> ZERO
          [] t = "Normal" -> Frac(v, 1, "Normal")
          [] OTHER -> NAN

from_unsigned_unsafe(value) ==
    LET v == AsI32(value)
        t == determine_frac_type(v, 1)
    IN  CASE t = "Zero" -> ZERO
          [] t = "Infinity" -> INFINITY
          [] t = "Normal" -> Frac(v, 1, "Normal")
          [] OTHER -> NAN

from_signed_unsafe(value) ==
    LET v == AsI32(value)
        t == determine_frac_type(v, 1)
    IN  CASE t = "Zero" -> ZERO
          [] t = "Infinity" -> INFINITY
          [] t = "NegInfinity" -> NEG_INFINITY
          [] t = "Normal" -> Frac(v, 1, "Normal")
          [] OTHER -> NAN

(***************************************************************************)
(* Checked conversions to the integer types.  A Result is a record: the    *)
(* target type, Ok or the ConversionError variant, and the Ok value.       *)
(***************************************************************************)
\* the narrow integer types (i8, i16, u8, u16), strictly inside i32
I16_MAX == I32_MAX \div 4
I16_MIN == -I16_MAX - 1
U16_MAX == 2 * I16_MAX + 1

TypeMin(ty) ==
    CASE ty = "i16" -> I16_MIN
      [] ty = "u16" -> 0
      [] ty = "u32" -> 0
      [] OTHER -> I32_MIN
TypeMax(ty) ==
    CASE ty = "i16" -> I16_MAX
      [] ty = "u16" -> U16_MAX
      [] ty = "u32" -> MOD32 - 1
      [] OTHER -> I32_MAX

Result(ty, tag, val) == [ty |-> ty, tag |-> tag, val |-> val]
NoConv == Result("none", "None", 0)

\* `value.nume / value.deno` in i32
int_part(value) ==
    IF value.deno = 0 \/ ~InI32(TruncDiv(value.nume, value.deno)) THEN PanicPair
    ELSE <<TruncDiv(value.nume, value.deno), 1>>

\* try_from_signed_greater with the quotient rounded down instead of toward zero
try_from_signed_greater_floor(value, ty) ==
    CASE value.frac_type \in {"Infinity", "NegInfinity"} -> Result(ty, "InfiniteConversion", 0)
      [] value.frac_type = "NaN" -> Result(ty, "NaNConversion", 0)
      [] value.frac_type = "Zero" -> Result(ty, "Ok", 0)
      [] OTHER -> Result(ty, "Ok", value.nume \div value.deno)

\* i8, i16, u8, u16
try_from_lower(value, ty) ==
    CASE value.frac_type \in {"Infinity", "NegInfinity"} -> Result(ty, "InfiniteConversion", 0)
      [] value.frac_type = "NaN" -> Result(ty, "NaNConversion", 0)
      [] value.frac_type = "Zero" -> Result(ty, "Ok", 0)
      [] OTHER ->
            LET q == int_part(value)
            IN  IF q = PanicPair THEN Result(ty, "Panic", 0)
                ELSE IF TypeMin(ty) <= q[1] /\ q[1] <= TypeMax(ty)
                     THEN Result(ty, "Ok", q[1])
                     ELSE Result(ty, "OutOfRangeError", 0)

\* u32, u64, u128
try_from_unsigned_greater(value, ty) ==
    CASE value.frac_type \in {"Infinity", "NegInfinity"} -> Result(ty, "InfiniteConversion", 0)
      [] value.frac_type = "NaN" -> Result(ty, "NaNConversion", 0)
      [] value.frac_type = "Zero" -> Result(ty, "Ok", 0)
      [] OTHER ->
            LET q == int_part(value)
            IN  IF q = PanicPair THEN Result(ty, "Panic", 0)
                ELSE IF q[1] >= 0 THEN Result(ty, "Ok", q[1])
                     ELSE Result(ty, "OutOfRangeError", 0)

\* i32, i64, i128
try_from_signed_greater(value, ty) ==
    CASE value.frac_type \in {"Infinity", "NegInfinity"} -> Result(ty, "InfiniteConversion", 0)
      [] value.frac_type = "NaN" -> Result(ty, "NaNConversion", 0)
      [] value.frac_type = "Zero" -> Result(ty, "Ok", 0)
      [] OTHER ->
            LET q == int_part(value)
            IN  IF q = PanicPair THEN Result(ty, "Panic", 0)
                ELSE Result(ty, "Ok", q[1])

\* what Hash feeds the hasher: nume, then deno
hash(self) == <<self.nume, self.deno>>

(***************************************************************************)
(* The calls a program can make, one action each.  Operands are read from  *)
(* x and y; the returned value is left in r (for a compound assignment r   *)
(* is the assigned variable after the call and x its value before), and    *)
(* can then be moved into x or y to take part in further calls.            *)
(***************************************************************************)
\* inputs of the conversions: the narrow types (u8, u16, i8, i16) lie
\* strictly inside i32; the wide ones reach beyond it on both sides
NarrowInt == -(I32_MAX \div 2)..(I32_MAX \div 2)
WideUnsigned == 0..(2 * MOD32 + 1)
WideSigned == -(2 * MOD32 + 1)..(2 * MOD32 + 1)

Constants == {INFINITY, NEG_INFINITY, NAN, ZERO, MAX, MIN, MIN_POSITIVE}

Idle(px, py) ==
    /\ x' = px /\ y' = py
    /\ r' = ZERO /\ ord' = "None" /\ pc' = "idle" /\ argn' = 0 /\ argd' = 0
    /\ conv' = NoConv
    /\ UNCHANGED <<sN, sD, sOut, seen>>

\* a call returning the Fraction v into x (constructors, constants, conversions)
Made(v, name, n, d) ==
    /\ pc = "idle"
    /\ x' = v /\ r' = v /\ pc' = name /\ argn' = n /\ argd' = d
    /\ UNCHANGED <<y, ord, sN, sD, sOut, conv, seen>>

\* a call on the operands returning the Fraction v
Returned(v, name) ==
    /\ pc = "idle"
    /\ r' = v /\ pc' = name
    /\ UNCHANGED <<x, y, ord, argn, argd, sN, sD, sOut, conv, seen>>

Init ==
    /\ x = ZERO /\ y = ZERO /\ r = ZERO /\ ord = "None" /\ pc = "idle"
    /\ argn = 0 /\ argd = 0
    /\ sN = 0 /\ sD = 1 /\ sOut = <<0, 1>>
    /\ conv = NoConv
    /\ seen = {}

New == \E n \in I32, d \in I32 : Made(new(n, d), "new", n, d)
Const == \E c \in Constants : Made(c, "const", 0, 0)
FromSafe == \E v \in NarrowInt : Made(from_safe(v), "from_safe", v, 0)
FromUnsignedUnsafe ==
    \E v \in I32 \cup WideUnsigned : Made(from_unsigned_unsafe(v), "from_unsigned_unsafe", v, 0)
FromSignedUnsafe ==
    \E v \in WideSigned : Made(from_signed_unsafe(v), "from_signed_unsafe", v, 0)

Add == Returned(add(x, y), "add")
Sub == Returned(sub(x, y), "sub")
Mul == Returned(mul(x, y), "mul")
Div == Returned(div(x, y), "div")
AddAssign == Returned(add_assign(x, y), "add_assign")
SubAssign == Returned(sub_assign(x, y), "sub_assign")
MulAssign == Returned(mul_assign(x, y), "mul_assign")
DivAssign == Returned(div_assign(x, y), "div_assign")
Neg == Returned(neg(x), "neg")
AbsOp == Returned(abs(x), "abs")
Reciprocal == Returned(reciprocal(x), "reciprocal")
Sign == Returned(sign(x), "sign")

PartialCmp ==
    /\ pc = "idle"
    /\ ord' = partial_cmp(x, y) /\ pc' = "partial_cmp"
    /\ UNCHANGED <<x, y, r, argn, argd, sN, sD, sOut, conv, seen>>

\* a checked conversion of the first operand
Converted(c, name) ==
    /\ pc = "idle"
    /\ conv' = c /\ pc' = name
    /\ UNCHANGED <<x, y, r, ord, argn, argd, sN, sD, sOut, seen>>

TryFromLower == \E ty \in {"i16", "u16"} : Converted(try_from_lower(x, ty), "try_from")
TryFromUnsignedGreater == Converted(try_from_unsigned_greater(x, "u32"), "try_from")
TryFromSignedGreater == Converted(try_from_signed_greater(x, "i32"), "try_from")

\* the program goes on with the returned value in the first operand, in the
\* second operand, or dropped; an aborted call has no continuation
StoreX == pc \notin {"idle", "partial_cmp", "try_from"} /\ r # PANICKED /\ Idle(r, y)
StoreY == pc \notin {"idle", "partial_cmp", "try_from"} /\ r # PANICKED /\ Idle(x, r)
Drop == pc # "idle" /\ r # PANICKED /\ ord # "Panic" /\ conv.tag # "Panic" /\ Idle(x, y)

Next ==
    \/ New \/ Const \/ FromSafe \/ FromUnsignedUnsafe \/ FromSignedUnsafe
    \/ Add \/ Sub \/ Mul \/ Div
    \/ AddAssign \/ SubAssign \/ MulAssign \/ DivAssign
    \/ Neg \/ AbsOp \/ Reciprocal \/ Sign
    \/ PartialCmp
    \/ TryFromLower \/ TryFromUnsignedGreater \/ TryFromSignedGreater
    \/ StoreX \/ StoreY \/ Drop

Spec == Init /\ [][Next]_vars

(***************************************************************************)
(* shrink on its own: every coprime pair of the wide unsigned type         *)
(***************************************************************************)
InitShrink ==
    /\ x = ZERO /\ y = ZERO /\ r = ZERO /\ ord = "None" /\ pc = "shrink_call"
    /\ argn = 0 /\ argd = 0
    /\ sN \in U64 /\ sD \in 1..U64_MAX
    /\ gcd(sN, sD) = 1
    /\ sOut = <<0, 1>>
    /\ conv = NoConv
    /\ seen = {}

ShrinkCall ==
    /\ pc = "shrink_call"
    /\ sOut' = shrink(sN, sD) /\ pc' = "shrink_ret"
    /\ UNCHANGED <<x, y, r, ord, argn, argd, sN, sD, conv, seen>>

NextShrink == ShrinkCall

SpecShrink == InitShrink /\ [][NextShrink]_vars

(***************************************************************************)
(* sqrt_fraction: n is held in x, prev in y, curr in r                     *)
(***************************************************************************)
\* the arguments sqrt_fraction can be given
SqrtArgs == Constants \cup {new(n, d) : n \in I32, d \in I32}

\* `(n / prev + prev) / 2`
newton(n, prev) == div(add(div(n, prev), prev), from_unsigned_unsafe(2))

\* the starting value of prev
first_prev(n) ==
    IF is_positive(sub(n, from_unsigned_unsafe(1)))
    THEN div(add(n, from_unsigned_unsafe(1)), from_unsigned_unsafe(2))
    ELSE from_unsigned_unsafe(1)

InitSqrt ==
    /\ x \in SqrtArgs
    /\ y = ZERO /\ r = ZERO /\ ord = "None" /\ pc = "sqrt_call"
    /\ argn = 0 /\ argd = 0
    /\ sN = 0 /\ sD = 1 /\ sOut = <<0, 1>>
    /\ conv = NoConv
    /\ seen = {}

\* the function up to the first test of the loop
SqrtStart ==
    /\ pc = "sqrt_call"
    /\ IF is_negative(x) THEN
            pc' = "sqrt_none" /\ UNCHANGED <<y, r>>
       ELSE IF x.frac_type = "Zero" THEN
            pc' = "sqrt_some" /\ r' = from_unsigned_unsafe(0) /\ UNCHANGED y
       ELSE
            /\ y' = first_prev(x)
            /\ r' = newton(x, first_prev(x))
            /\ pc' = "sqrt_loop"
    /\ UNCHANGED <<x, ord, argn, argd, sN, sD, sOut, conv, seen>>

\* one pass of the loop: return curr, or step
SqrtIter ==
    /\ pc = "sqrt_loop"
    /\ IF sub(r, y) = from_unsigned_unsafe(0) THEN
            pc' = "sqrt_some" /\ UNCHANGED <<y, r, seen>>
       ELSE
            /\ y' = r
            /\ r' = newton(x, r)
            /\ seen' = seen \cup {<<y, r>>}
            /\ UNCHANGED pc
    /\ UNCHANGED <<x, ord, argn, argd, sN, sD, sOut, conv>>

NextSqrt == SqrtStart \/ SqrtIter

SpecSqrt == InitSqrt /\ [][NextSqrt]_vars

(***************************************************************************)
(* Claims about shrink (specification SpecShrink)                          *)
(***************************************************************************)
\* |n1/d1 - N/D| < |n2/d2 - N/D| for d1, d2, D > 0, by cross-multiplication
Closer(n1, d1, n2, d2, N, D) ==
    Abs(n1 * D - N * d1) * d2 < Abs(n2 * D - N * d2) * d1

Exceeds == sN > LIMITER \/ sD > LIMITER

\* C1: shrink returns an in-bound pair that is a closest in-bound fraction
\* to N/D (no in-bound pair is strictly closer), and returns an in-bound
\* input unchanged.
C1_ShrinkClosest ==
    pc = "shrink_ret" =>
        /\ sOut # PanicPair
        /\ sOut[1] <= LIMITER /\ sOut[2] <= LIMITER /\ sOut[2] >= 1
        /\ ~Exceeds => sOut = <<sN, sD>>
        /\ \A n \in 0..LIMITER, d \in 1..LIMITER :
                ~Closer(n, d, sOut[1], sOut[2], sN, sD)

\* the last convergent (p_1, q_1) and the semiconvergent shrink compares it with
LastConv == shrink_loop(0, 1, 1, 0, sN, sD)
SemiK ==
    Max(Min((LIMITER - LastConv.q_0) \div LastConv.q_1,
            (LIMITER - LastConv.p_0) \div LastConv.p_1), 0)
SemiConv ==
    <<LastConv.p_0 + SemiK * LastConv.p_1, LastConv.q_0 + SemiK * LastConv.q_1>>
FinalChoice == Exceeds /\ LastConv.q_1 # 0 /\ LastConv.p_1 # 0
\* the convergent and the semiconvergent are equally far from N/D
Tie ==
    /\ FinalChoice
    /\ SemiConv[2] # 0
    /\ ~Closer(LastConv.p_1, LastConv.q_1, SemiConv[1], SemiConv[2], sN, sD)
    /\ ~Closer(SemiConv[1], SemiConv[2], LastConv.p_1, LastConv.q_1, sN, sD)

\* C2: on an input exceeding the bound, no pair (n', d') with n' <= LIMIT and
\* d' <= min(d, LIMIT) is closer to N/D than the returned (n, d) -- in the two
\* short-circuit branches and in the final choice alike -- and a tie between
\* the convergent and the semiconvergent returns the convergent (p_1, q_1).
C2_ShrinkOptimal ==
    (pc = "shrink_ret" /\ Exceeds) =>
        /\ sOut # PanicPair
        /\ sOut[2] >= 1
        /\ \A n \in 0..LIMITER, d \in 1..Min(sOut[2], LIMITER) :
                ~Closer(n, d, sOut[1], sOut[2], sN, sD)
        /\ Tie => sOut = <<LastConv.p_1, LastConv.q_1>>

\* all three branches are taken, a semiconvergent is returned, and a tie occurs
C2_Witness ==
    /\ pc = "shrink_ret" /\ Tie
    /\ SemiConv # <<LastConv.p_1, LastConv.q_1>>
    /\ sOut = <<LastConv.p_1, LastConv.q_1>>

(***************************************************************************)
(* Claims about the values a program can hold (specification Spec)         *)
(***************************************************************************)
Aborted == r = PANICKED
Finite(v) == v.frac_type \in {"Normal", "Zero"}

NormalInv(v) ==
    v.frac_type = "Normal" =>
        /\ v.deno > 0
        /\ gcd(Abs(v.nume), v.deno) = 1
        /\ Abs(v.nume) <= LIMITER
        /\ v.deno <= LIMITER

\* C3: every Normal value held after any sequence of calls has a positive
\* denominator, coprime numerator and denominator, and both magnitudes
\* within LIMITER.
C3_NormalInvariant == NormalInv(x) /\ NormalInv(y) /\ NormalInv(r)

\* an addition of two Normal values whose exact sum had to be approximated
C3_Witness ==
    /\ pc = "add" /\ r.frac_type = "Normal"
    /\ x.frac_type = "Normal" /\ y.frac_type = "Normal"
    /\ r.nume * (x.deno * y.deno) # (x.nume * y.deno + y.nume * x.deno) * r.deno

CategoryConsistent(v) == v.frac_type = determine_frac_type(v.nume, v.deno)

\* C4: the stored category of every value held after any sequence of calls
\* is the classification of its (numerator, denominator) pair.
C4_CategoryConsistent ==
    /\ CategoryConsistent(x) /\ CategoryConsistent(y)
    /\ ~Aborted => CategoryConsistent(r)

\* C5: each compound assignment leaves in the assigned variable exactly the
\* value its binary operator returns on the same operands.
C5_AssignMatchesBinary ==
    /\ pc = "add_assign" => r = add(x, y)
    /\ pc = "sub_assign" => r = sub(x, y)
    /\ pc = "mul_assign" => r = mul(x, y)
    /\ pc = "div_assign" => r = div(x, y)

\* the sign of a value of the extended rationals
SignOf(v) ==
    CASE v.frac_type = "Infinity" -> 1
      [] v.frac_type = "NegInfinity" -> -1
      [] v.frac_type = "Normal" -> signum(v.nume)
      [] OTHER -> 0

\* the category of a product by the sign rule of the extended rationals
MulTable(a, b) ==
    LET inf == {"Infinity", "NegInfinity"}
    IN  CASE a.frac_type = "NaN" \/ b.frac_type = "NaN" -> "NaN"
          [] (a.frac_type \in inf /\ b.frac_type = "Zero")
             \/ (a.frac_type = "Zero" /\ b.frac_type \in inf) -> "NaN"
          [] a.frac_type \in inf \/ b.frac_type \in inf ->
                IF SignOf(a) * SignOf(b) > 0 THEN "Infinity" ELSE "NegInfinity"
          [] a.frac_type = "Zero" \/ b.frac_type = "Zero" -> "Zero"
          [] OTHER -> "Normal"

\* C6: get_mul_type follows the sign rule of the extended rationals on every
\* pair of operands a multiplication is called with.
C6_MulTable == pc = "mul" => get_mul_type(x, y) = MulTable(x, y)

\* the order of the extended rationals (denominators of finite values are
\* positive)
ExtendedOrder(a, b) ==
    CASE a.frac_type = "NaN" \/ b.frac_type = "NaN" -> "None"
      [] a.frac_type = b.frac_type /\ a.frac_type \in {"Infinity", "NegInfinity"} -> "Equal"
      [] a.frac_type = "Infinity" \/ b.frac_type = "NegInfinity" -> "Greater"
      [] a.frac_type = "NegInfinity" \/ b.frac_type = "Infinity" -> "Less"
      [] OTHER -> cmp(a.nume * b.deno, a.deno * b.nume)

\* C7: partial_cmp returns None exactly when an operand is NaN and otherwise
\* the order of the extended rationals.
C7_PartialCmpOrder == pc = "partial_cmp" => ord = ExtendedOrder(x, y)

\* C8: the special numeric conditions come back as special categories and
\* never abort: inf + -inf, inf - inf, 0 * inf, inf / inf are NaN; inf + x
\* is Infinity for finite x; finite x / Zero is Infinity, NegInfinity or NaN
\* by the sign of x; new(n, 0) is Infinity, NegInfinity or NaN by the sign
\* of n.
C8_SpecialValues ==
    /\ (pc = "add" /\ x.frac_type = "Infinity" /\ y.frac_type = "NegInfinity") => r = NAN
    /\ (pc = "add" /\ x.frac_type = "Infinity" /\ Finite(y)) => r = INFINITY
    /\ (pc = "sub" /\ x.frac_type = "Infinity" /\ y.frac_type = "Infinity") => r = NAN
    /\ (pc = "mul" /\ x.frac_type = "Zero" /\ y.frac_type = "Infinity") => r = NAN
    /\ (pc = "div" /\ x.frac_type = "Infinity" /\ y.frac_type = "Infinity") => r = NAN
    /\ (pc = "div" /\ Finite(x) /\ y.frac_type = "Zero") =>
            r = (IF SignOf(x) > 0 THEN INFINITY
                 ELSE IF SignOf(x) < 0 THEN NEG_INFINITY ELSE NAN)
    /\ (pc = "new" /\ argd = 0) =>
            r = (IF argn > 0 THEN INFINITY
                 ELSE IF argn < 0 THEN NEG_INFINITY ELSE NAN)

\* a negative finite value divided by Zero returned NegInfinity
C8_Witness ==
    /\ pc = "div" /\ x.frac_type = "Normal" /\ x.nume < 0 /\ y = ZERO
    /\ r = NEG_INFINITY

\* C9: a + Zero and a - Zero equal a (numerator, denominator and category)
\* for every value a held after any sequence of calls.
C9_AddZeroIdentity == (pc \in {"add", "sub"} /\ y = ZERO) => r = x

\* two argument pairs denoting the same rational number
SameRational(n1, d1, n2, d2) == d1 # 0 /\ d2 # 0 /\ n1 * d2 = n2 * d1

\* C10: for d # 0, new(n, d) equals new(n/g, d/g) with g = gcd(|n|, |d|),
\* its numerator and denominator are coprime, and every constructor call
\* whose arguments denote the same rational returns an equal value with an
\* equal hash.
C10_CanonicalReduction ==
    (pc = "new" /\ argd # 0) =>
        LET g == gcd(Abs(argn), Abs(argd))
        IN  /\ r = new(TruncDiv(argn, g), TruncDiv(argd, g))
            /\ hash(r) = hash(new(TruncDiv(argn, g), TruncDiv(argd, g)))
            /\ gcd(Abs(r.nume), Abs(r.deno)) = 1
            /\ \A n2 \in I32, d2 \in I32 :
                    SameRational(argn, argd, n2, d2) =>
                        new(n2, d2) = r /\ hash(new(n2, d2)) = hash(r)

\* a constructor call with a common factor in its arguments returned a
\* Normal value
C10_Witness ==
    /\ pc = "new" /\ argd # 0 /\ gcd(Abs(argn), Abs(argd)) > 1
    /\ r.frac_type = "Normal"

\* the arguments of the last new call can both be negated within i32
Negatable == argn # I32_MIN /\ argd # I32_MIN

\* C11 as stated: new(n, -d) = new(-n, d) for all n and d, d = 0 included
\* (the call observed is new(argn, argd), so the other one is
\* new(-argn, -argd)), and a Normal result has a positive denominator.
C11_SignNormalizationAll ==
    (pc = "new" /\ Negatable) =>
        /\ r = new(-argn, -argd)
        /\ r.frac_type = "Normal" => r.deno > 0

\* C11 (amended): new(n, -d) = new(-n, d) for all n and all d # 0 whose
\* negations exist in i32, and every Normal result of new carries its sign
\* in the numerator: positive denominator, numerator signed as n/d.
C11_SignNormalization ==
    /\ (pc = "new" /\ Negatable /\ argd # 0) => r = new(-argn, -argd)
    /\ (pc = "new" /\ r.frac_type = "Normal") =>
            r.deno > 0 /\ signum(r.nume) = signum(argn) * signum(argd)

\* a call with a negative denominator returned a negative Normal value
C11_Witness ==
    /\ pc = "new" /\ argn > 0 /\ argd < 0 /\ argd # I32_MIN
    /\ r.frac_type = "Normal" /\ r.nume < 0 /\ r.deno > 1

Le(a, b) == partial_cmp(a, b) \in {"Less", "Equal"}

WithinExtremes(v) ==
    v.frac_type = "Normal" =>
        /\ Le(MIN, v) /\ Le(v, MAX)
        /\ is_positive(v) => Le(MIN_POSITIVE, v)

\* C12: every Normal value held after any sequence of calls lies between
\* MIN and MAX under partial_cmp, and every positive one is at least
\* MIN_POSITIVE.
C12_Extremes == WithinExtremes(x) /\ WithinExtremes(y) /\ WithinExtremes(r)

\* the quotient numerator/denominator truncated toward zero
Truncated(v) == TruncDiv(v.nume, v.deno)
Fits(v, ty) == TypeMin(ty) <= Truncated(v) /\ Truncated(v) <= TypeMax(ty)

\* C13: a checked conversion fails with NaNConversion exactly for NaN, with
\* InfiniteConversion exactly for the infinities, with OutOfRangeError
\* exactly for a finite value whose truncated quotient does not fit the
\* target type, and otherwise returns Ok of the truncated quotient.
C13_CheckedConversion ==
    pc = "try_from" =>
        /\ conv.tag \in {"Ok", "NaNConversion", "InfiniteConversion", "OutOfRangeError"}
        /\ conv.tag = "NaNConversion" <=> x.frac_type = "NaN"
        /\ conv.tag = "InfiniteConversion" <=> x.frac_type \in {"Infinity", "NegInfinity"}
        /\ conv.tag = "OutOfRangeError" <=> (Finite(x) /\ ~Fits(x, conv.ty))
        /\ conv.tag = "Ok" => conv.val = Truncated(x)

\* a negative non-integer converted to Ok of its quotient rounded toward zero
C13_Witness ==
    /\ pc = "try_from" /\ conv.ty = "i32" /\ conv.tag = "Ok"
    /\ x.frac_type = "Normal" /\ x.nume < 0 /\ x.deno > 1
    /\ conv.val * x.deno > x.nume

\* the Fraction a native integer v denotes by classification of v itself
ClassifyInt(v) ==
    IF v = 0 THEN ZERO
    ELSE IF v = I32_MAX THEN INFINITY
    ELSE IF v = I32_MIN THEN NEG_INFINITY
    ELSE IF InI32(v) THEN Frac(v, 1, "Normal")
    ELSE NAN

\* C14: From a native integer of 32 bits or wider returns the classification
\* of the integer itself: Zero for 0, Infinity / NegInfinity for i32::MAX /
\* i32::MIN, Normal v/1 for any other v of the i32 range, NaN for a v outside
\* that range; a Normal or Zero result always has the value v.
C14_FromWide ==
    pc \in {"from_unsigned_unsafe", "from_signed_unsafe"} =>
        /\ r = ClassifyInt(argn)
        /\ Finite(r) => r.nume = argn /\ r.deno = 1

\* the exact sum of x and y in lowest terms has a denominator over LIMITER
SumLeavesRange ==
    LET N == x.nume * y.deno + y.nume * x.deno
        D == x.deno * y.deno
    IN  N # 0 /\ D \div gcd(Abs(N), D) > LIMITER

\* C15: no call aborts: new, the four operators and their assigning forms,
\* negation, abs, reciprocal and partial_cmp never divide by zero and never
\* overflow an intermediate of 32, 64 or 128 bits, and gcd and shrink return.
C15_NoAbort == ~Aborted /\ ord # "Panic"

\* an addition whose exact sum had to be approximated by shrink has returned
C15_Witness ==
    /\ pc = "add" /\ x.frac_type = "Normal" /\ y.frac_type = "Normal"
    /\ SumLeavesRange
    /\ r.frac_type = "Normal"

\* C16: the Newton iteration terminates for every finite positive n: the
\* loop never tests a pair (prev, curr) it has tested before, so a pass with
\* curr - prev == Zero is reached.
C16_SqrtTerminates ==
    (pc = "sqrt_loop" /\ Finite(x) /\ is_positive(x)) => <<y, r>> \notin seen

\* C17: arithmetic is symmetric under negation: (-a) * b == -(a * b) and
\* (-a) + (-b) == -(a + b) for the operands of every multiplication and
\* addition, also when the exact result leaves the representable range.
C17_NegationSymmetry ==
    /\ pc = "mul" => mul(neg(x), y) = neg(r)
    /\ pc = "add" => add(neg(x), neg(y)) = neg(r)

====
